---- MODULE Spec2Model ----
(***************************************************************************)
(* Model of server/src/utils.rs: the `paths` module (three lazy statics    *)
(* and resolve_foundry_script_path) and run_command.                       *)
(*                                                                         *)
(* Text is a sequence of pieces: the separator "/" or a piece of a file    *)
(* name ("a", "resources", "main.js", ...).  Adjacent name pieces belong   *)
(* to the same path component, so <<"a", "main.js">> is the one-component  *)
(* path "amain.js" and not "a/main.js".                                    *)
(***************************************************************************)
EXTENDS Integers, Sequences, FiniteSets, TLC

VARIABLES env, files, APPLICATION_DIR, DATA_DIR, FOUNDRY_SCRIPT_PATH,
          ret, log, proc, changes, probe, prev, runs

vars == <<env, files, APPLICATION_DIR, DATA_DIR, FOUNDRY_SCRIPT_PATH,
          ret, log, proc, changes, probe, prev, runs>>

-----------------------------------------------------------------------------
(* Bounds *)

\* longest application-root string passed to resolve_foundry_script_path
MaxRootLen == 2
\* longest value an environment variable is set to
MaxEnvLen == 1
\* changes of the process's surroundings per behaviour: environment variables
\* set or removed, script files created or removed
MaxChanges == 2
\* longest captured stdout / stderr of a child process, in bytes
MaxOutLen == 2
\* longest argument list given to run_command
MaxArgs == 1
\* process restarts per behaviour
MaxRestarts == 1

-----------------------------------------------------------------------------
(* Text and paths *)

Sep == "/"

RootChars == {Sep, "a"}

RECURSIVE StringsUpTo(_, _)
StringsUpTo(chars, n) ==
    IF n = 0 THEN {<<>>}
    ELSE LET S == StringsUpTo(chars, n - 1)
         IN  S \cup {Append(s, c) : s \in {t \in S : Len(t) = n - 1}, c \in chars}

RootStrings == StringsUpTo(RootChars, MaxRootLen)

EnvStrings == StringsUpTo(RootChars, MaxEnvLen)

\* "/foundryvtt".to_string()
DEFAULT_APPLICATION_DIR == <<Sep, "foundryvtt">>

\* "/foundrydata".to_string()
DEFAULT_DATA_DIR == <<Sep, "foundrydata">>

\* PathBuf::from(app_dir): the same text, held as a path
PathBuf_from(s) == s

\* Path::is_absolute on Unix: the text starts with the separator
is_absolute(path) == Len(path) > 0 /\ path[1] = Sep

\* PathBuf::push: an absolute argument replaces the path; otherwise a
\* separator is added unless the path is empty or already ends with one
push(self, path) ==
    IF is_absolute(path) THEN path
    ELSE IF Len(self) > 0 /\ self[Len(self)] # Sep THEN self \o <<Sep>> \o path
    ELSE self \o path

\* Path::join(path) = clone, then push
join(self, path) == push(self, path)

\* The normal components of a path: maximal runs of name pieces between
\* separators; empty runs (repeated or trailing separators) are dropped.
RECURSIVE Parts(_, _, _)
Parts(path, cur, acc) ==
    IF path = <<>> THEN (IF cur = <<>> THEN acc ELSE Append(acc, cur))
    ELSE IF Head(path) = Sep
         THEN Parts(Tail(path), <<>>, IF cur = <<>> THEN acc ELSE Append(acc, cur))
         ELSE Parts(Tail(path), Append(cur, Head(path)), acc)

\* Path::components: PathBuf equality and file lookup both go by components
components(path) == [has_root |-> is_absolute(path), parts |-> Parts(path, <<>>, <<>>)]

\* PathBuf == PathBuf (assert_eq!(resolved, main_js))
PathEq(p, q) == components(p) = components(q)

\* Path::exists against the set of files on disk
exists(path, fs) == components(path) \in fs

-----------------------------------------------------------------------------
(* paths::resolve_foundry_script_path *)

\* one debug! line: its message, the text it shows, and for run_command the
\* argument list or the exit code
LogLine(msg, text, args, c) == [msg |-> msg, text |-> text, args |-> args, code |-> c]

\* base.join("resources").join("app").join("main.js")
old_path_of(app_dir) ==
    join(join(join(PathBuf_from(app_dir), <<"resources">>), <<"app">>), <<"main.js">>)

\* base.join("main.js")
new_path_of(app_dir) == join(PathBuf_from(app_dir), <<"main.js">>)

UseOld(app_dir, fs) ==
    [val |-> old_path_of(app_dir), fs |-> fs,
     log |-> <<LogLine("Using old Foundry VTT path", old_path_of(app_dir), <<>>, <<>>)>>]

UseNew(app_dir, fs) ==
    [val |-> new_path_of(app_dir), fs |-> fs,
     log |-> <<LogLine("Using new Foundry VTT path", new_path_of(app_dir), <<>>, <<>>)>>]

\* a variant that prefers the new layout when its file is present
resolve_new_first(app_dir, fs) ==
    IF exists(new_path_of(app_dir), fs) \/ ~exists(old_path_of(app_dir), fs)
    THEN UseNew(app_dir, fs)
    ELSE UseOld(app_dir, fs)

\* a variant that falls back to the new layout only when its file is present
resolve_checked_fallback(app_dir, fs) ==
    IF exists(old_path_of(app_dir), fs) \/ ~exists(new_path_of(app_dir), fs)
    THEN UseOld(app_dir, fs)
    ELSE UseNew(app_dir, fs)

\* a variant that builds the fallback by appending text to the root
resolve_concat(app_dir, fs) ==
    IF exists(old_path_of(app_dir), fs)
    THEN UseOld(app_dir, fs)
    ELSE [val |-> app_dir \o <<"main.js">>, fs |-> fs,
          log |-> <<LogLine("Using new Foundry VTT path", app_dir \o <<"main.js">>,
                            <<>>, <<>>)>>]

\* a variant that creates the fallback file when the legacy one is missing
resolve_touch(app_dir, fs) ==
    IF exists(old_path_of(app_dir), fs)
    THEN UseOld(app_dir, fs)
    ELSE UseNew(app_dir, fs \cup {components(new_path_of(app_dir))})

\* val: the returned PathBuf; fs: the files on disk after the call;
\* log: the debug! line emitted
resolve_foundry_script_path(app_dir, fs) ==
    IF exists(old_path_of(app_dir), fs)
    THEN UseOld(app_dir, fs)
    ELSE UseNew(app_dir, fs)

-----------------------------------------------------------------------------
(* Environment variables and the lazy statics *)

EnvNames == {"APPLICATION_DIR", "DATA_DIR"}

\* a variable is absent, holds bytes that are not Unicode, or holds text
EnvVals ==
    {[kind |-> "NotPresent", val |-> <<>>], [kind |-> "NotUnicode", val |-> <<>>]}
        \cup {[kind |-> "Ok", val |-> s] : s \in EnvStrings}

\* env::var(key): Ok(text), or Err(VarError) when absent or not Unicode
env_var(e, key) ==
    IF e[key].kind = "Ok" THEN [ok |-> TRUE, val |-> e[key].val]
    ELSE [ok |-> FALSE, val |-> <<>>]

\* Result::unwrap_or_else(|_| default)
unwrap_or_else(r, default) == IF r.ok THEN r.val ELSE default

\* a lazy static before its first dereference
Uninit == [init |-> FALSE, val |-> <<>>]

\* a variant that reads the wrong variable
deref_APPLICATION_DIR_wrong_key(cell, e) ==
    IF cell.init THEN cell
    ELSE [init |-> TRUE,
          val  |-> unwrap_or_else(env_var(e, "DATA_DIR"), DEFAULT_APPLICATION_DIR)]

\* *APPLICATION_DIR: the initializer runs on the first dereference only
deref_APPLICATION_DIR(cell, e) ==
    IF cell.init THEN cell
    ELSE [init |-> TRUE,
          val  |-> unwrap_or_else(env_var(e, "APPLICATION_DIR"), DEFAULT_APPLICATION_DIR)]

\* *DATA_DIR
deref_DATA_DIR(cell, e) ==
    IF cell.init THEN cell
    ELSE [init |-> TRUE,
          val  |-> unwrap_or_else(env_var(e, "DATA_DIR"), DEFAULT_DATA_DIR)]

\* a variant whose initializer reads the environment instead of the static
script_app_dir_from_env(cell, e) ==
    [cell |-> cell,
     dir  |-> unwrap_or_else(env_var(e, "APPLICATION_DIR"), DEFAULT_APPLICATION_DIR)]

\* &APPLICATION_DIR inside FOUNDRY_SCRIPT_PATH's initializer: dereferences
\* (and so initializes) APPLICATION_DIR; cell is that static afterwards
script_app_dir(cell, e) ==
    [cell |-> deref_APPLICATION_DIR(cell, e),
     dir  |-> deref_APPLICATION_DIR(cell, e).val]

\* a variant that resolves the script path on every dereference
deref_FOUNDRY_SCRIPT_PATH_uncached(cell, app_dir, fs) ==
    [cell |-> [init |-> TRUE, val |-> resolve_foundry_script_path(app_dir, fs).val],
     fs   |-> resolve_foundry_script_path(app_dir, fs).fs,
     log  |-> resolve_foundry_script_path(app_dir, fs).log]

\* *FOUNDRY_SCRIPT_PATH, given the application directory its initializer sees
deref_FOUNDRY_SCRIPT_PATH(cell, app_dir, fs) ==
    IF cell.init THEN [cell |-> cell, fs |-> fs, log |-> <<>>]
    ELSE [cell |-> [init |-> TRUE, val |-> resolve_foundry_script_path(app_dir, fs).val],
          fs   |-> resolve_foundry_script_path(app_dir, fs).fs,
          log  |-> resolve_foundry_script_path(app_dir, fs).log]

-----------------------------------------------------------------------------
(* run_command *)

\* bytes a child writes: a letter, a blank, and a byte that is not UTF-8
Bytes == {"h", " ", "xFF"}

REPLACEMENT_CHARACTER == "U+FFFD"

ByteStrings == StringsUpTo(Bytes, MaxOutLen)

\* String::from_utf8_lossy: invalid bytes become the replacement character
RECURSIVE from_utf8_lossy(_)
from_utf8_lossy(bytes) ==
    IF bytes = <<>> THEN <<>>
    ELSE <<IF Head(bytes) = "xFF" THEN REPLACEMENT_CHARACTER ELSE Head(bytes)>>
             \o from_utf8_lossy(Tail(bytes))

\* str::trim: leading and trailing blanks removed
RECURSIVE trim_start(_)
trim_start(s) == IF s # <<>> /\ Head(s) = " " THEN trim_start(Tail(s)) ELSE s

RECURSIVE trim_end(_)
trim_end(s) ==
    IF s # <<>> /\ s[Len(s)] = " " THEN trim_end(SubSeq(s, 1, Len(s) - 1)) ELSE s

trim(s) == trim_end(trim_start(s))

\* ExitStatus: exit code 0, exit code 1, or ended by a signal (no code)
Statuses == {"exit0", "exit1", "signal"}

success(status) == status = "exit0"

\* ExitStatus::code(): Some(n) as <<n>>, None as <<>>
code(status) == IF status = "exit0" THEN <<0>> ELSE IF status = "exit1" THEN <<1>> ELSE <<>>

\* io::Result<Output> of Command::output()
Outcomes ==
    {[spawned |-> FALSE, error |-> k, status |-> "none", stdout |-> <<>>, stderr |-> <<>>] :
        k \in {"NotFound", "PermissionDenied"}}
    \cup {[spawned |-> TRUE, error |-> "none", status |-> st, stdout |-> o, stderr |-> e] :
        st \in Statuses, o \in ByteStrings, e \in ByteStrings}

NoOutcome == [spawned |-> FALSE, error |-> "none", status |-> "none",
              stdout |-> <<>>, stderr |-> <<>>]

Commands == {<<"false">>, <<"node">>}

ArgValues == {<<"-v">>, <<"x">>}

ArgLists == StringsUpTo(ArgValues, MaxArgs)

\* what an operation hands back to its caller
Ret(op, arg, args, ok, val, context, source) ==
    [op |-> op, arg |-> arg, args |-> args, ok |-> ok, val |-> val,
     context |-> context, source |-> source]

NoRet == Ret("none", <<>>, <<>>, TRUE, <<>>, <<>>, "none")

\* a variant that treats a non-zero exit status as an error
run_command_strict(command, args, out) ==
    IF ~out.spawned \/ ~success(out.status)
    THEN [ret |-> Ret("run_command", command, args, FALSE, <<>>,
                      <<<<"Failed to execute command">>, command, args>>, out.error),
          log |-> <<LogLine("Running command", command, args, <<>>)>>]
    ELSE [ret |-> Ret("run_command", command, args, TRUE, from_utf8_lossy(out.stdout),
                      <<>>, "none"),
          log |-> <<LogLine("Running command", command, args, <<>>)>>]

\* a variant that returns stderr after a failed command
run_command_stderr(command, args, out) ==
    IF ~out.spawned
    THEN [ret |-> Ret("run_command", command, args, FALSE, <<>>,
                      <<<<"Failed to execute command">>, command, args>>, out.error),
          log |-> <<LogLine("Running command", command, args, <<>>)>>]
    ELSE [ret |-> Ret("run_command", command, args, TRUE,
                      IF success(out.status) THEN from_utf8_lossy(out.stdout)
                      ELSE from_utf8_lossy(out.stderr), <<>>, "none"),
          log |-> <<LogLine("Running command", command, args, <<>>)>>
                    \o (IF success(out.status) THEN <<>>
                        ELSE <<LogLine("Command failed with status code",
                                       trim(from_utf8_lossy(out.stderr)), <<>>,
                                       code(out.status))>>)]

\* run_command(command, args) when Command::output() yields out
run_command(command, args, out) ==
    IF ~out.spawned
    THEN [ret |-> Ret("run_command", command, args, FALSE, <<>>,
                      <<<<"Failed to execute command">>, command, args>>, out.error),
          log |-> <<LogLine("Running command", command, args, <<>>)>>]
    ELSE [ret |-> Ret("run_command", command, args, TRUE, from_utf8_lossy(out.stdout),
                      <<>>, "none"),
          log |-> <<LogLine("Running command", command, args, <<>>)>>
                    \o (IF success(out.status) THEN <<>>
                        ELSE <<LogLine("Command failed with status code",
                                       trim(from_utf8_lossy(out.stderr)), <<>>,
                                       code(out.status))>>)]

-----------------------------------------------------------------------------
(* State *)

\* the candidate script files under the roots resolve is called with
RootFiles ==
    UNION {{components(old_path_of(r)), components(new_path_of(r))} : r \in RootStrings}

NoPrev == [app |-> Uninit, data |-> Uninit, script |-> Uninit, probe |-> "none"]

\* no environment variable is set (the image's default)
EnvUnset == [key \in EnvNames |-> [kind |-> "NotPresent", val |-> <<>>]]

\* process start under environment e, with a child process behaviour out:
\* nothing dereferenced, nothing called, the script files yet to be installed
Start(e, out) ==
    /\ env = e
    /\ files = {}
    /\ APPLICATION_DIR = Uninit
    /\ DATA_DIR = Uninit
    /\ FOUNDRY_SCRIPT_PATH = Uninit
    /\ ret = NoRet
    /\ log = <<>>
    /\ proc = out
    /\ changes = 0
    /\ probe = "none"
    /\ prev = NoPrev
    /\ runs = 0

\* the process is started under any environment
Init == \E e \in [EnvNames -> EnvVals] : Start(e, NoOutcome)

\* the resolver is called in a process started under the default environment
InitResolve == Start(EnvUnset, NoOutcome)

\* proc is what Command::output() yields for the commands of this behaviour
InitRun == \E out \in Outcomes : Start(EnvUnset, out)

\* the environment, as seen through env::var, is changed
SetVar(key, v) ==
    /\ changes < MaxChanges
    /\ v # env[key]
    /\ env' = [env EXCEPT ![key] = v]
    /\ changes' = changes + 1
    /\ ret' = NoRet
    /\ log' = <<>>
    /\ UNCHANGED <<files, APPLICATION_DIR, DATA_DIR, FOUNDRY_SCRIPT_PATH, proc, probe,
                   prev, runs>>

\* fs::write(&main_js, ...)
CreateFile(f) ==
    /\ changes < MaxChanges
    /\ f \notin files
    /\ files' = files \cup {f}
    /\ changes' = changes + 1
    /\ ret' = NoRet
    /\ log' = <<>>
    /\ UNCHANGED <<env, APPLICATION_DIR, DATA_DIR, FOUNDRY_SCRIPT_PATH, proc,
                   probe, prev, runs>>

\* fs::remove_dir_all(&temp_dir), one file at a time
RemoveFile(f) ==
    /\ changes < MaxChanges
    /\ f \in files
    /\ files' = files \ {f}
    /\ changes' = changes + 1
    /\ ret' = NoRet
    /\ log' = <<>>
    /\ UNCHANGED <<env, APPLICATION_DIR, DATA_DIR, FOUNDRY_SCRIPT_PATH, proc,
                   probe, prev, runs>>

\* a read of *paths::APPLICATION_DIR
Read_APPLICATION_DIR ==
    /\ APPLICATION_DIR' = deref_APPLICATION_DIR(APPLICATION_DIR, env)
    /\ ret' = Ret("APPLICATION_DIR", <<>>, <<>>, TRUE, APPLICATION_DIR'.val, <<>>, "none")
    /\ log' = <<>>
    /\ UNCHANGED <<env, files, DATA_DIR, FOUNDRY_SCRIPT_PATH, proc, changes, probe, prev, runs>>

\* a read of *paths::DATA_DIR
Read_DATA_DIR ==
    /\ DATA_DIR' = deref_DATA_DIR(DATA_DIR, env)
    /\ ret' = Ret("DATA_DIR", <<>>, <<>>, TRUE, DATA_DIR'.val, <<>>, "none")
    /\ log' = <<>>
    /\ UNCHANGED <<env, files, APPLICATION_DIR, FOUNDRY_SCRIPT_PATH, proc, changes, probe, prev, runs>>

\* the legacy script file of root, by components: root's, then the three names
LegacyFile(root) ==
    [has_root |-> components(root).has_root,
     parts    |-> components(root).parts \o <<<<"resources">>, <<"app">>, <<"main.js">>>>]

\* the new-layout script file of root, by components
NewFile(root) ==
    [has_root |-> components(root).has_root,
     parts    |-> components(root).parts \o <<<<"main.js">>>>]

\* a read of *paths::FOUNDRY_SCRIPT_PATH; the first one runs the initializer,
\* which dereferences APPLICATION_DIR and resolves the script path.
\* probe records whether the legacy file was on disk at that moment.
Read_FOUNDRY_SCRIPT_PATH ==
    LET app == IF FOUNDRY_SCRIPT_PATH.init
               THEN [cell |-> APPLICATION_DIR, dir |-> APPLICATION_DIR.val]
               ELSE script_app_dir(APPLICATION_DIR, env)
        d   == deref_FOUNDRY_SCRIPT_PATH(FOUNDRY_SCRIPT_PATH, app.dir, files)
    IN  /\ APPLICATION_DIR' = app.cell
        /\ FOUNDRY_SCRIPT_PATH' = d.cell
        /\ files' = d.fs
        /\ log' = d.log
        /\ ret' = Ret("FOUNDRY_SCRIPT_PATH", <<>>, <<>>, TRUE, d.cell.val, <<>>, "none")
        /\ probe' = IF FOUNDRY_SCRIPT_PATH.init THEN probe
                    ELSE IF LegacyFile(app.dir) \in files THEN "present" ELSE "absent"
        /\ UNCHANGED <<env, DATA_DIR, proc, changes, prev, runs>>

\* a direct call paths::resolve_foundry_script_path(app_dir)
Resolve(app_dir) ==
    LET r == resolve_foundry_script_path(app_dir, files)
    IN  /\ files' = r.fs
        /\ log' = r.log
        /\ ret' = Ret("resolve_foundry_script_path", app_dir, <<>>, TRUE, r.val, <<>>, "none")
        /\ UNCHANGED <<env, APPLICATION_DIR, DATA_DIR, FOUNDRY_SCRIPT_PATH, proc, changes, probe, prev, runs>>

\* a call run_command(command, args); proc is what Command::output() yields
RunCommand(command, args) ==
    LET r == run_command(command, args, proc)
    IN  /\ ret' = r.ret
        /\ log' = r.log
        /\ UNCHANGED <<env, files, APPLICATION_DIR, DATA_DIR, FOUNDRY_SCRIPT_PATH, proc,
                       changes, probe, prev, runs>>

\* the process exits and is started again under the same environment (no
\* set_var happens in these behaviours); the statics of the new process are uninitialized, the files
\* on disk stay. prev keeps what the old process had observed.
Restart ==
    /\ runs < MaxRestarts
    /\ runs' = runs + 1
    /\ prev' = [app |-> APPLICATION_DIR, data |-> DATA_DIR,
                script |-> FOUNDRY_SCRIPT_PATH, probe |-> probe]
    /\ APPLICATION_DIR' = Uninit
    /\ DATA_DIR' = Uninit
    /\ FOUNDRY_SCRIPT_PATH' = Uninit
    /\ probe' = "none"
    /\ ret' = NoRet
    /\ log' = <<>>
    /\ UNCHANGED <<env, files, proc, changes>>

\* the candidate script files of the installation this process serves: those
\* under the root the environment names and under the root it has cached
AppFiles ==
    UNION {{components(old_path_of(r)), components(new_path_of(r))} :
              r \in {unwrap_or_else(env_var(env, "APPLICATION_DIR"), DEFAULT_APPLICATION_DIR)}
                      \cup (IF APPLICATION_DIR.init THEN {APPLICATION_DIR.val} ELSE {})}

\* the paths module in a process whose environment and disk change
Next ==
    \/ \E key \in EnvNames, v \in EnvVals : SetVar(key, v)
    \/ \E f \in AppFiles : CreateFile(f)
    \/ \E f \in AppFiles : RemoveFile(f)
    \/ Read_APPLICATION_DIR
    \/ Read_DATA_DIR
    \/ Read_FOUNDRY_SCRIPT_PATH

Spec == Init /\ [][Next]_vars

\* direct calls of resolve_foundry_script_path while the disk changes
NextResolve ==
    \/ \E f \in RootFiles : CreateFile(f)
    \/ \E f \in RootFiles : RemoveFile(f)
    \/ \E app_dir \in RootStrings : Resolve(app_dir)

SpecResolve == InitResolve /\ [][NextResolve]_vars

\* calls of run_command
NextRun ==
    \E command \in Commands, args \in ArgLists : RunCommand(command, args)

SpecRun == InitRun /\ [][NextRun]_vars

\* two runs of the process under the same starting environment
NextRestart ==
    \/ \E f \in AppFiles : CreateFile(f)
    \/ \E f \in AppFiles : RemoveFile(f)
    \/ Read_APPLICATION_DIR
    \/ Read_DATA_DIR
    \/ Read_FOUNDRY_SCRIPT_PATH
    \/ Restart

SpecRestart == Init /\ [][NextRestart]_vars

-----------------------------------------------------------------------------
(* Properties of resolve_foundry_script_path, under SpecResolve *)

\* the step is a call of resolve_foundry_script_path that has just returned
Resolved == ret'.op = "resolve_foundry_script_path" /\ ret' # ret

\* C1: whenever the legacy file {root}/resources/app/main.js is on disk at the
\* time of the call, the call returns exactly that path, also when
\* {root}/main.js is on disk too.
C1_LegacyWins ==
    [][Resolved /\ LegacyFile(ret'.arg) \in files
          => ret'.ok /\ components(ret'.val) = LegacyFile(ret'.arg)]_vars

\* a call has returned the legacy path while both script files are on disk
C1_Witness ==
    /\ ret.op = "resolve_foundry_script_path"
    /\ LegacyFile(ret.arg) \in files
    /\ NewFile(ret.arg) \in files
    /\ components(ret.val) = LegacyFile(ret.arg)

\* C2: whenever the legacy file is not on disk at the time of the call, the
\* call returns exactly {root}/main.js, whether or not that file is on disk.
C2_FallbackToNew ==
    [][Resolved /\ LegacyFile(ret'.arg) \notin files
          => ret'.ok /\ components(ret'.val) = NewFile(ret'.arg)]_vars

\* a call has returned {root}/main.js for a root under which nothing is on
\* disk, while files of other roots are
C2_Witness ==
    /\ ret.op = "resolve_foundry_script_path"
    /\ LegacyFile(ret.arg) \notin files
    /\ NewFile(ret.arg) \notin files
    /\ components(ret.val) = NewFile(ret.arg)
    /\ Cardinality(files) = MaxChanges

\* C3: for every root string, in every state of the disk, the function yields
\* one of the two candidates of that root; and a call that has returned has
\* returned without an error one of the two candidates of its root.
C3_TotalTwoCandidates ==
    /\ \A app_dir \in RootStrings :
          components(resolve_foundry_script_path(app_dir, files).val)
              \in {LegacyFile(app_dir), NewFile(app_dir)}
    /\ ret.op = "resolve_foundry_script_path"
          => /\ ret.ok
             /\ ret.source = "none"
             /\ components(ret.val) \in {LegacyFile(ret.arg), NewFile(ret.arg)}

\* a call with a relative root that has no trailing separator has returned
\* the new-layout candidate while only the legacy file of another root exists
C3_Witness ==
    /\ ret.op = "resolve_foundry_script_path"
    /\ ret.arg = <<"a">>
    /\ files = {LegacyFile(<<Sep, "a">>)}
    /\ components(ret.val) = [has_root |-> FALSE, parts |-> <<<<"a">>, <<"main.js">>>>]

\* C9: a call of resolve_foundry_script_path leaves the files on disk as they
\* were: nothing is created, nothing removed.
C9_ReadOnly == [][Resolved => files' = files]_vars

\* a call has fallen back to a file that does not exist and has not created it
C9_Witness ==
    /\ ret.op = "resolve_foundry_script_path"
    /\ ret.arg = <<>>
    /\ components(ret.val) = NewFile(<<>>)
    /\ NewFile(<<>>) \notin files
    /\ files # {}

-----------------------------------------------------------------------------
(* Properties of run_command, under SpecRun *)

Decoded(bytes) ==
    [i \in 1..Len(bytes) |-> IF bytes[i] = "xFF" THEN "U+FFFD" ELSE bytes[i]]

Blanks(n) == [i \in 1..n |-> " "]

\* t is s without its leading and trailing blanks
IsTrimOf(t, s) ==
    /\ t = <<>> \/ (t[1] # " " /\ t[Len(t)] # " ")
    /\ \E i \in 0..Len(s) : \E j \in 0..Len(s) : s = Blanks(i) \o t \o Blanks(j)

-----------------------------------------------------------------------------
(* Properties of the lazy statics, under Spec *)

\* the text env::var yields for key in the current environment, or default
\* when the variable is absent or not Unicode
EnvOr(key, default) == IF env[key].kind = "Ok" THEN env[key].val ELSE default

\* C6: the first read of the application root takes the value of
\* APPLICATION_DIR when it is set and readable and "/foundryvtt" otherwise;
\* the data root does the same with DATA_DIR and "/foundrydata". A read never
\* fails and hands back the static's value, whatever is on disk.
C6_EnvOrDefault ==
    [][/\ ~APPLICATION_DIR.init /\ APPLICATION_DIR'.init
             => APPLICATION_DIR'.val = EnvOr("APPLICATION_DIR", <<"/", "foundryvtt">>)
       /\ ~DATA_DIR.init /\ DATA_DIR'.init
             => DATA_DIR'.val = EnvOr("DATA_DIR", <<"/", "foundrydata">>)
       /\ ret'.op = "APPLICATION_DIR"
             => ret'.ok /\ APPLICATION_DIR'.init /\ ret'.val = APPLICATION_DIR'.val
       /\ ret'.op = "DATA_DIR"
             => ret'.ok /\ DATA_DIR'.init /\ ret'.val = DATA_DIR'.val]_vars

\* both roots have been read: the application root from a variable that is
\* not Unicode (the default came back), the data root from a variable that
\* is set, and neither names anything that is on disk
C6_Witness ==
    /\ ret.op = "DATA_DIR"
    /\ env["APPLICATION_DIR"].kind = "NotUnicode"
    /\ env["DATA_DIR"].kind = "Ok"
    /\ changes = 0
    /\ APPLICATION_DIR = [init |-> TRUE, val |-> <<"/", "foundryvtt">>]
    /\ ret.val = env["DATA_DIR"].val
    /\ files = {}

\* C7: each static is computed at most once: from its first read on its
\* value stays what it is, and every read hands that value back, whatever
\* happens to the environment variables and the script files.
C7_ComputedOnce ==
    [][/\ APPLICATION_DIR.init => APPLICATION_DIR' = APPLICATION_DIR
       /\ DATA_DIR.init => DATA_DIR' = DATA_DIR
       /\ FOUNDRY_SCRIPT_PATH.init => FOUNDRY_SCRIPT_PATH' = FOUNDRY_SCRIPT_PATH
       /\ APPLICATION_DIR.init /\ ret'.op = "APPLICATION_DIR"
             => ret'.val = APPLICATION_DIR.val
       /\ DATA_DIR.init /\ ret'.op = "DATA_DIR" => ret'.val = DATA_DIR.val
       /\ FOUNDRY_SCRIPT_PATH.init /\ ret'.op = "FOUNDRY_SCRIPT_PATH"
             => ret'.val = FOUNDRY_SCRIPT_PATH.val]_vars

\* a later read of the script path has handed back the new-layout path of
\* the cached root although by now the legacy file exists under that root
\* and APPLICATION_DIR names another root
C7_Witness ==
    /\ ret.op = "FOUNDRY_SCRIPT_PATH"
    /\ log = <<>>
    /\ APPLICATION_DIR.init
    /\ EnvOr("APPLICATION_DIR", <<"/", "foundryvtt">>) # APPLICATION_DIR.val
    /\ LegacyFile(APPLICATION_DIR.val) \in files
    /\ components(ret.val) = NewFile(APPLICATION_DIR.val)

\* C10: whenever the script path is initialized, the application root is
\* initialized too and the script path is one of the two candidates of the
\* cached application root, whatever APPLICATION_DIR holds by then.
C10_ScriptUnderCachedRoot ==
    FOUNDRY_SCRIPT_PATH.init
       => /\ APPLICATION_DIR.init
          /\ components(FOUNDRY_SCRIPT_PATH.val)
                \in {LegacyFile(APPLICATION_DIR.val), NewFile(APPLICATION_DIR.val)}

\* the initializer of the script path has just run, after APPLICATION_DIR
\* was changed away from the root that had been cached, and has chosen the
\* legacy file of the cached root
C10_Witness ==
    /\ ret.op = "FOUNDRY_SCRIPT_PATH"
    /\ log # <<>>
    /\ changes = MaxChanges
    /\ EnvOr("APPLICATION_DIR", <<"/", "foundryvtt">>) # APPLICATION_DIR.val
    /\ components(FOUNDRY_SCRIPT_PATH.val) = LegacyFile(APPLICATION_DIR.val)
    /\ LegacyFile(EnvOr("APPLICATION_DIR", <<"/", "foundryvtt">>)) \notin files

-----------------------------------------------------------------------------
(* Two runs under the same starting environment, under SpecRestart *)

\* both runs have read the static
BothRead(a, b) == a.init /\ b.init

\* C8 as stated: two runs that start with the same APPLICATION_DIR and
\* DATA_DIR observe the same application root, data root and script path.
C8_SameEnvSameValues ==
    /\ BothRead(prev.app, APPLICATION_DIR) => prev.app.val = APPLICATION_DIR.val
    /\ BothRead(prev.data, DATA_DIR) => prev.data.val = DATA_DIR.val
    /\ BothRead(prev.script, FOUNDRY_SCRIPT_PATH)
          => PathEq(prev.script.val, FOUNDRY_SCRIPT_PATH.val)

\* C8 amended: two runs that start with the same APPLICATION_DIR and DATA_DIR
\* and do not change them observe the same application root and data root;
\* they observe the same script path when the legacy file's presence at the
\* first read of the script path is the same in both, and different script
\* paths when it is not.
C8_SameEnvSameProbeSameValues ==
    /\ BothRead(prev.app, APPLICATION_DIR) => prev.app.val = APPLICATION_DIR.val
    /\ BothRead(prev.data, DATA_DIR) => prev.data.val = DATA_DIR.val
    /\ BothRead(prev.script, FOUNDRY_SCRIPT_PATH)
          => (PathEq(prev.script.val, FOUNDRY_SCRIPT_PATH.val) <=> prev.probe = probe)

\* both runs have read all three statics and found the legacy file present,
\* though the files on disk changed twice along the way
C8_Witness ==
    /\ runs = 1
    /\ BothRead(prev.app, APPLICATION_DIR)
    /\ BothRead(prev.data, DATA_DIR)
    /\ BothRead(prev.script, FOUNDRY_SCRIPT_PATH)
    /\ prev.probe = "present"
    /\ probe = "present"
    /\ changes = MaxChanges
    /\ NewFile(APPLICATION_DIR.val) \in files

====
